---- MODULE Spec2Model ----
(***************************************************************************)
(* A model of the frozen-data synchronisation engine:                      *)
(*   - database/utils/util.py   rate_limiter (one closure per decorated    *)
(*                              fetch method of TSDataFeed), worker and    *)
(*                              parallel_task                              *)
(*   - database/datafeed.py     TSDataFeed and DataFeedManager             *)
(*   - database/utils/calendar.py  Calendar                                *)
(*   - database/base.py         connection_factory                         *)
(*                                                                         *)
(* The specifications of the module:                                       *)
(*   SpecRL    threads calling the rate-limited fetch methods              *)
(*   SpecSync  a DataFeedManager running sync operations one after another *)
(*   SpecPT    parallel_task and its worker threads (SpecPTLive: with weak *)
(*             fairness of the steps)                                      *)
(*   SpecNew   the constructor call DataFeedManager(...)                   *)
(*   SpecConn  callers of connection_factory, one call after another       *)
(*   SpecPar   workers of parallel_task running sync operations on one     *)
(*             table at the same time                                      *)
(***************************************************************************)
EXTENDS Integers, Sequences, FiniteSets, Bags, TLC

VARIABLES
    \* ---- rate limiter (util.py:35-62), one closure per decorated method
    calls,          \* [op -> Nat]       nonlocal calls
    start_time,     \* [op -> Nat]       nonlocal start_time
    lock,           \* [op -> thread or NoThread]   threading.Lock owner
    now,            \* the wall clock, time.time()
    tpc,            \* [thread -> position in wrapper]
    top,            \* [thread -> the method the thread calls]
    wake_at,        \* [thread -> earliest time time.sleep may return]
    admitted,       \* sequence of [op, t, fresh]: calls that passed the limiter
    downstream,     \* number of executions of the wrapped function
    \* ---- sync engine (datafeed.py)
    database,       \* DataFeedManager.database
    mgr,            \* DataFeedManager fields: ticker_list, start_date, end_date, TODAY
    today,          \* the calendar day of the clock (day ordinal)
    tables,         \* [category -> [exists, rows (a bag of stored keys)]]
    run,            \* the sync operation in progress
    fetchlog,       \* external fetch calls issued by the operation in progress
    prev,           \* how the previous sync operation ended
    nops,           \* sync operations started so far
    \* ---- dispatcher (util.py:81-126)
    tasks,          \* the tasks argument of parallel_task: a list of params
    ppc,            \* parallel_task's position
    threads,        \* the worker threads started, each with its position
    running,        \* per worker: the queue item it is executing
    task_queue,     \* Queue: the items not yet taken
    unfinished_tasks, \* Queue.unfinished_tasks
    invocations,    \* the calls func(*args, **kwargs) made by the workers
    finished,       \* the tasks whose call has returned
    nloop,          \* iterations done of parallel_task's current for loop
    \* ---- construction (datafeed.py:160-223)
    args,           \* the arguments of DataFeedManager(...)
    made,           \* the outcome of the constructor call
    \* ---- connection handles (base.py)
    cfg,            \* database_cfg: the backends' entries of the configuration
    heap,           \* the DatabaseConnection objects allocated so far
    instance,       \* DatabaseConnection._instance: an index of heap, or NoInstance
    handles,        \* what the connection_factory calls returned to their callers
    nconn,          \* connection_factory calls made so far
    conn_err,       \* what the last connection_factory call raised
    \* ---- concurrent sync operations (util.py:81-87, datafeed.py)
    wrun            \* per dispatcher worker: the sync operation it runs

rlvars   == <<calls, start_time, lock, now, tpc, top, wake_at, admitted, downstream>>
syncvars == <<database, mgr, today, tables, run, fetchlog, prev, nops>>
ptvars   == <<tasks, ppc, threads, running, task_queue, unfinished_tasks,
             invocations, finished, nloop>>
newvars  == <<args, made, cfg, heap, instance, handles, nconn, conn_err>>
parvars  == <<wrun>>
vars     == <<rlvars, syncvars, ptvars, newvars, parvars>>

----------------------------------------------------------------------------
(* Bounds of the model *)

\* the limiter's budget N (the claims are stated for any N >= 1)
MaxCallsBound == 2
\* the clock advances in steps of TickStep seconds up to MaxTime
TickStep == 30
MaxTime == 120
\* calendar days are ordinals 0..MaxDay counted from EpochYMD
MaxDay == 7
\* sync operations started in one behaviour
MaxOps == 2
\* the calendar day of the first run
FirstDay == 5
\* the longest task list handed to parallel_task
MaxTasks == 2
\* the longest ticker list handed to the constructor
MaxTickers == 2
\* connection_factory calls made in one behaviour
MaxBuilds == 3

\* DatabaseConnection._instance = None (base.py:8)
NoInstance == 0

----------------------------------------------------------------------------
(* Rate limiter: util.py rate_limiter, applied in datafeed.py:80-125 *)

\* the window length hard-coded in wrapper (util.py:46, 51)
WINDOW == 60

\* rate_limiter(max_calls_per_minute=...) argument, scaled down to the bound
max_calls_per_minute == MaxCallsBound

Threads == {"t1", "t2"}
NoThread == "none"

\* the fetch methods of TSDataFeed
FetchOps == {"fetch_volumn_price", "fetch_stock_limit", "fetch_stock_fundamental",
             "fetch_stock_dividend", "fetch_stock_suspend", "fetch_stock_basic"}

\* the methods that carry @rate_limiter: each decoration builds its own
\* closure (calls, start_time, lock); fetch_stock_basic is not decorated
Decorated == FetchOps \ {"fetch_stock_basic"}

\* how many calls the threads issue in all
TotalCalls == 2 * max_calls_per_minute

InitRL ==
    /\ calls = [o \in Decorated |-> 0]
    /\ start_time = [o \in Decorated |-> 0]
    /\ lock = [o \in Decorated |-> NoThread]
    /\ now = 0
    /\ tpc = [t \in Threads |-> "idle"]
    /\ top \in [Threads -> FetchOps]
    /\ wake_at = [t \in Threads |-> 0]
    /\ admitted = <<>>
    /\ downstream = 0
    \* no sync operation takes place
    /\ database = "duckdb"
    /\ today = 0
    /\ mgr = <<>>
    /\ tables = <<>>
    /\ run = <<>>
    /\ fetchlog = <<>>
    /\ prev = <<>>
    /\ nops = 0
    \* no dispatcher runs, no manager is constructed
    /\ tasks = <<>>
    /\ ppc = "none"
    /\ threads = <<>>
    /\ running = <<>>
    /\ task_queue = <<>>
    /\ unfinished_tasks = 0
    /\ invocations = <<>>
    /\ finished = {}
    /\ nloop = 0
    /\ args = <<>>
    /\ made = <<>>
    /\ cfg = <<>>
    /\ heap = <<>>
    /\ instance = NoInstance
    /\ handles = <<>>
    /\ nconn = 0
    /\ conn_err = "none"
    /\ wrun = <<>>

\* util.py:44-49  the lock is taken, the clock read, the window reset when
\* more than 60 s have passed since start_time
CallsAfterReset(o) == IF now - start_time[o] > WINDOW THEN 0 ELSE calls[o]
StartAfterReset(o) == IF now - start_time[o] > WINDOW THEN now ELSE start_time[o]

\* a limiter that never has to sleep
no_sleep(o) == 0

\* util.py:52  sleep_time = 60 - (current_time - start_time)
SleepTime(o) == WINDOW - (now - StartAfterReset(o))

\* the calls made so far: admitted, asleep or waiting for the lock
Issued ==
    Len(admitted) + Cardinality({t \in Threads : tpc[t] \in {"waiting", "sleeping"}})

\* a wrapper that keeps the lock when it leaves the with block
keep_lock(l, o, t) == [l EXCEPT ![o] = t]

\* util.py:44 the end of "with lock": the lock is released
release(l, o, t) == [l EXCEPT ![o] = NoThread]

\* a sleep that never returns
never_wakes(t) == FALSE

\* util.py:54 time.sleep(sleep_time) returns no earlier than asked
may_wake(t) == now >= wake_at[t]

\* an entry of the admission log; fresh: the call opened a new window
Admission(o, isfresh) == [op |-> o, t |-> now, fresh |-> isfresh]

\* util.py:42-44: a thread calls a rate-limited method and waits for the lock
Call(t) ==
    /\ tpc[t] = "idle" /\ top[t] \in Decorated
    /\ Issued < TotalCalls
    /\ tpc' = [tpc EXCEPT ![t] = "waiting"]
    /\ UNCHANGED <<calls, start_time, lock, now, top, wake_at, admitted, downstream,
                   syncvars, ptvars, newvars, parvars>>

\* util.py:44-50, 58: budget left, counter incremented, lock released
Admit(t) ==
    LET o == top[t] IN
    /\ tpc[t] = "waiting"
    /\ lock[o] = NoThread
    /\ CallsAfterReset(o) < max_calls_per_minute
    /\ calls' = [calls EXCEPT ![o] = CallsAfterReset(o) + 1]
    /\ start_time' = [start_time EXCEPT ![o] = StartAfterReset(o)]
    /\ lock' = release(lock, o, t)
    /\ admitted' = Append(admitted, Admission(o, now - start_time[o] > WINDOW))
    /\ tpc' = [tpc EXCEPT ![t] = "admitted"]
    /\ UNCHANGED <<now, top, wake_at, downstream, syncvars, ptvars, newvars, parvars>>

\* util.py:50-54: budget used up, the caller sleeps inside the lock
BlockAndSleep(t) ==
    LET o == top[t] IN
    /\ tpc[t] = "waiting"
    /\ lock[o] = NoThread
    /\ CallsAfterReset(o) >= max_calls_per_minute
    /\ SleepTime(o) > 0
    /\ lock' = [lock EXCEPT ![o] = t]
    /\ calls' = [calls EXCEPT ![o] = CallsAfterReset(o)]
    /\ start_time' = [start_time EXCEPT ![o] = StartAfterReset(o)]
    /\ wake_at' = [wake_at EXCEPT ![t] = now + SleepTime(o)]
    /\ tpc' = [tpc EXCEPT ![t] = "sleeping"]
    /\ UNCHANGED <<now, top, admitted, downstream, syncvars, ptvars, newvars, parvars>>

\* util.py:50-58 with sleep_time <= 0: reset without sleeping
BlockNoSleep(t) ==
    LET o == top[t] IN
    /\ tpc[t] = "waiting"
    /\ lock[o] = NoThread
    /\ CallsAfterReset(o) >= max_calls_per_minute
    /\ SleepTime(o) <= 0
    /\ calls' = [calls EXCEPT ![o] = 1]
    /\ start_time' = [start_time EXCEPT ![o] = now]
    /\ lock' = release(lock, o, t)
    /\ admitted' = Append(admitted, Admission(o, TRUE))
    /\ tpc' = [tpc EXCEPT ![t] = "admitted"]
    /\ UNCHANGED <<now, top, wake_at, downstream, syncvars, ptvars, newvars, parvars>>

\* util.py:54-58: time.sleep returns, the counter and start_time are reset,
\* the call counted, the lock released
WakeUp(t) ==
    LET o == top[t] IN
    /\ tpc[t] = "sleeping"
    /\ may_wake(t)
    /\ calls' = [calls EXCEPT ![o] = 1]
    /\ start_time' = [start_time EXCEPT ![o] = now]
    /\ lock' = release(lock, o, t)
    /\ admitted' = Append(admitted, Admission(o, TRUE))
    /\ tpc' = [tpc EXCEPT ![t] = "admitted"]
    /\ UNCHANGED <<now, top, wake_at, downstream, syncvars, ptvars, newvars, parvars>>

\* util.py:59: return func(*args, **kwargs), outside the lock
Downstream(t) ==
    /\ tpc[t] = "admitted"
    /\ downstream' = downstream + 1
    /\ tpc' = [tpc EXCEPT ![t] = "idle"]
    /\ UNCHANGED <<calls, start_time, lock, now, top, wake_at, admitted,
                   syncvars, ptvars, newvars, parvars>>

\* datafeed.py:134: fetch_stock_basic carries no decorator
Undecorated(t) ==
    /\ tpc[t] = "idle" /\ top[t] \notin Decorated
    /\ downstream < TotalCalls
    /\ downstream' = downstream + 1
    /\ UNCHANGED <<calls, start_time, lock, now, tpc, top, wake_at, admitted,
                   syncvars, ptvars, newvars, parvars>>

\* the wall clock; it runs on past MaxTime while a sleeper waits for it
Tick ==
    /\ \/ now + TickStep <= MaxTime
       \/ \E t \in Threads : tpc[t] = "sleeping" /\ wake_at[t] > now
    /\ now' = now + TickStep
    /\ UNCHANGED <<calls, start_time, lock, tpc, top, wake_at, admitted, downstream,
                   syncvars, ptvars, newvars, parvars>>

----------------------------------------------------------------------------
(* Dates: pandas Timestamps, "%Y%m%d" strings and timedelta arithmetic *)

\* day ordinal 0 of the model's calendar: 2022-12-30, a Friday
\* (datetime.weekday() counts Monday as 0)
Epoch == [ymd |-> 20221230, weekday |-> 4]
EpochYMD == Epoch.ymd
EpochWeekday == Epoch.weekday

Days == 0..MaxDay

IsLeap(y) == (y % 4 = 0 /\ y % 100 # 0) \/ y % 400 = 0

DaysInMonth(y, m) ==
    IF m = 2 THEN (IF IsLeap(y) THEN 29 ELSE 28)
    ELSE IF m \in {4, 6, 9, 11} THEN 30 ELSE 31

\* the calendar day after yyyymmdd
NextYMD(x) ==
    LET y == x \div 10000
        m == (x \div 100) % 100
        d == x % 100
    IN  IF d < DaysInMonth(y, m) THEN x + 1
        ELSE IF m < 12 THEN y * 10000 + (m + 1) * 100 + 1
        ELSE (y + 1) * 10000 + 101

RECURSIVE YMDFrom(_)
YMDFrom(d) == IF d = 0 THEN EpochYMD ELSE NextYMD(YMDFrom(d - 1))

\* the days a date computation can reach: the horizon and a few days past it
Reach == 0..(MaxDay + 4)
YMDTable == [d \in Reach |-> YMDFrom(d)]

\* strftime("%Y%m%d") of the day with ordinal d
YMDOf(d) == YMDTable[d]

\* strptime(s, "%Y%m%d"): the ordinal of yyyymmdd
OrdOf(x) == CHOOSE d \in Reach : YMDOf(d) = x

\* a pandas Timestamp holds a day ordinal, a str holds yyyymmdd
Timestamp(d) == [kind |-> "Timestamp", v |-> d]
Str(x) == [kind |-> "str", v |-> x]

\* Timestamp.strftime("%Y%m%d")
strftime(ts) == Str(YMDOf(ts.v))
\* datetime.datetime.strptime(s, "%Y%m%d")
strptime(s) == Timestamp(OrdOf(s.v))
\* ts + datetime.timedelta(n)
PlusDays(ts, n) == Timestamp(ts.v + n)

\* datafeed.py:984-996 _get_ticker_date: ticker_date is the max_date cell of
\* the ticker; the two isinstance tests are two separate if statements, so a
\* Timestamp shifted and formatted by the first is a str when the second runs
get_ticker_date(ticker_date, shift) ==
    LET first == IF ticker_date.kind = "Timestamp"
                 THEN strftime(PlusDays(ticker_date, shift))
                 ELSE ticker_date
    IN  IF first.kind = "str"
        THEN strftime(PlusDays(strptime(first), shift))
        ELSE first

----------------------------------------------------------------------------
(* Calendar: utils/calendar.py *)

\* chinese_calendar.is_holiday on a weekday of the horizon: 2023-01-02
Holidays == {20230102}

weekday(d) == (EpochWeekday + d) % 7

\* calendar.py:35-38 is_tradeday
is_tradeday(d) == ~(weekday(d) \in {5, 6} \/ YMDOf(d) \in Holidays)

\* calendar.py:41-44 get_trade_day(start, end), start and end "%Y%m%d"
\* strings; restricted to the days of the horizon
get_trade_day(s, e) ==
    {d \in Days : s.v <= YMDOf(d) /\ YMDOf(d) <= e.v /\ is_tradeday(d)}

RECURSIVE next_trade_day_from(_)
next_trade_day_from(d) ==
    IF d > MaxDay + 3 \/ is_tradeday(d) THEN d ELSE next_trade_day_from(d + 1)

\* calendar.py:47-58 next_trade_day(date)
next_trade_day(ts) == Timestamp(next_trade_day_from(ts.v + 1))

----------------------------------------------------------------------------
(* The external data source (tushare), as seen through TSDataFeed *)

T1 == "000001.SZ"
T2 == "000002.SZ"
T3 == "000003.SZ"
Tickers == {T1, T2, T3}
TickerOrder == <<T1, T2, T3>>

Categories == {"price", "limit", "fundamental", "dividend", "suspend", "basic"}
TickerCats == {"price", "limit", "fundamental", "dividend"}

\* a null date (ex_date NaN, or no date column in the key)
NoDate == 0 - 1

Row(t, d) == [ts_code |-> t, date |-> d]

\* what the source holds: T1 trades on every trade day, T2 from day 5 on,
\* T3 has no data at all
SourceDays(cat, t) ==
    IF cat = "dividend"
    THEN (IF t = T1 THEN {4, 6, 7, NoDate} ELSE IF t = T2 THEN {7} ELSE {})
    ELSE (IF t = T1 THEN {d \in Days : is_tradeday(d)}
          ELSE IF t = T2 THEN {d \in Days : is_tradeday(d) /\ d >= 5}
          ELSE {})

\* the tickers suspended on day d
SuspendedOn(d) ==
    IF d = 4 THEN {T1} ELSE IF d = 6 THEN {T2} ELSE IF d = 7 THEN {T1, T2}
    ELSE {}

\* the listed stocks
Listed == {T1, T2}

\* a fetch result: None, or a DataFrame with a set of rows
NoneVal == [none |-> TRUE, rows |-> {}]
Frame(S) == [none |-> FALSE, rows |-> S]

\* a validity check that lets an empty frame through
check_validity_nonempty_unchecked(data) == ~data.none

\* datafeed.py:140-148 TSDataFeed._check_validity and datafeed.py:945-953
\* DataFeedManager._check_validity: False for an empty frame (data.empty),
\* False for None (data.empty raises, data is None), True otherwise
check_validity(data) == ~data.none /\ data.rows # {}

\* datafeed.py:80-88 fetch_volumn_price, 90-98 fetch_stock_limit, 100-109
\* fetch_stock_fundamental: rows of the ticker from START to end_date, where
\* end_date is the feed's TODAY under update and its END otherwise
fetch_range(cat, feed, update) ==
    LET e == IF update THEN feed.TODAY ELSE feed.END
        query == {Row(feed.ticker, d) : d \in
                    {x \in SourceDays(cat, feed.ticker) :
                        /\ x <= today
                        /\ feed.START.v <= YMDOf(x) /\ YMDOf(x) <= e.v}}
    IN  IF ~check_validity(Frame(query)) THEN NoneVal ELSE Frame(query)

\* a dividend fetch that ignores the cutoff
fetch_stock_dividend_uncut(feed, update, cutoff) ==
    Frame({Row(feed.ticker, d) : d \in
            {x \in SourceDays("dividend", feed.ticker) : x # NoDate /\ x <= today}})

\* datafeed.py:111-123 fetch_stock_dividend: every dividend of the ticker,
\* null ex-dates dropped, under update only ex_date > cutoff kept; compared
\* with a None cutoff no row is kept (when pandas raises instead, the call
\* is one of those that raise)
fetch_stock_dividend(feed, update, cutoff) ==
    LET query == {Row(feed.ticker, d) : d \in
                    {x \in SourceDays("dividend", feed.ticker) :
                        x = NoDate \/ x <= today}}
        notna == {r \in query : r.date # NoDate}
    IN  IF ~check_validity(Frame(query)) THEN NoneVal
        ELSE IF update
        THEN Frame({r \in notna : cutoff.kind # "None" /\ YMDOf(r.date) > cutoff.v})
        ELSE Frame(notna)

\* datafeed.py:125-132 fetch_stock_suspend(tradeday)
fetch_stock_suspend(d) ==
    LET query == {Row(t, d) : t \in IF d <= today THEN SuspendedOn(d) ELSE {}}
    IN  IF ~check_validity(Frame(query)) THEN NoneVal ELSE Frame(query)

\* the values of list_status a caller passes: "L" listed, "P" listing
\* paused; the source has no stock of status "P"
ListStatuses == {"L", "P"}
ListedAs(list_status) == IF list_status = "L" THEN Listed ELSE {}

\* datafeed.py:134-138 fetch_stock_basic(list_status): the frame the source
\* returns, empty or not; there is no validity check and no decorator
fetch_stock_basic(list_status) == Frame({Row(t, NoDate) : t \in ListedAs(list_status)})

----------------------------------------------------------------------------
(* Storage backends, as DataFeedManager drives them *)

Databases == {"chdb", "duckdb", "mongodb"}

Rows(cat) == BagToSet(tables[cat].rows)

\* datafeed.py:712-736 _check_table_exists: a branch for each backend
check_table_exists(cat) == tables[cat].exists

\* the backends for which a helper has a branch; on the others the local
\* variable it returns is never bound (UnboundLocalError)
\* datafeed.py:738-797, 959-977: duckdb and mongodb only
HasBranch(db) == db \in {"duckdb", "mongodb"}

\* datafeed.py:738-753 _check_table_empty
check_table_empty(cat) == tables[cat].rows = EmptyBag

\* MongoDB matches a filter value against a stored value of the same type
\* only; DuckDB casts the string literal to the column's TIMESTAMP type
MongoEq(stored, given) == stored = given
DuckEq(stored, given) ==
    IF given.kind = "str" THEN stored = strptime(given) ELSE stored = given

\* datafeed.py:755-780 _check_data_exists: data_str is a ticker when it
\* contains ".", else a "%Y-%m-%d" date; the mongodb date filter is the
\* str() of the parsed datetime, the stored trade_date is a datetime
check_data_exists(db, cat, unit) ==
    IF unit.shape = "ticker"
    THEN \E r \in Rows(cat) : r.ts_code = unit.ticker
    ELSE IF db = "duckdb"
         THEN \E r \in Rows(cat) :
                DuckEq(Timestamp(r.date), strftime(Timestamp(unit.day)))
         ELSE \E r \in Rows(cat) :
                MongoEq(Timestamp(r.date), strftime(Timestamp(unit.day)))

\* datafeed.py:782-797 _get_table_ticker, as a list
get_table_ticker(cat) ==
    SelectSeq(TickerOrder, LAMBDA t : \E r \in Rows(cat) : r.ts_code = t)

MaxOf(S) == CHOOSE x \in S : \A y \in S : y <= x

\* the table names fetch_*_data is called with: the defaults of datafeed.py:363,
\* 434, 527, 604 and the names of the price and basic tables
table_name_of(cat) ==
    CASE cat = "price" -> "stock_daily_real"
      [] cat = "limit" -> "stock_daily_limit"
      [] cat = "fundamental" -> "stock_daily_fundamental"
      [] cat = "dividend" -> "stock_dividend"
      [] cat = "suspend" -> "stock_suspend_status"
      [] OTHER -> "stock_basic"

\* table_name is a caller-supplied string: a dividend table under another name
NamesOf(cat) ==
    IF cat = "dividend" THEN {table_name_of(cat), "dividend_history"}
    ELSE {table_name_of(cat)}
AllNames == UNION {NamesOf(cat) : cat \in Categories}

\* datafeed.py:961 date_col
date_col(table_name) ==
    IF table_name = "stock_dividend" THEN "ex_date" ELSE "trade_date"

\* the date column the table of a category is created with (datafeed.py:538,
\* 553 ex_date; trade_date in the others)
HasColumn(cat, col) == col = (IF cat = "dividend" THEN "ex_date" ELSE "trade_date")

\* the max_date cell of a group whose documents lack the field: null
NoneCell == [kind |-> "None", v |-> 0]

\* datafeed.py:959-977 _get_table_date(latest=False): max of date_col per
\* ts_code; on mongodb $max over a field the documents do not have is null
\* (duckdb rejects the query, see BeginOp)
get_table_date(table_name, cat) ==
    [t \in {r.ts_code : r \in Rows(cat)} |->
        IF HasColumn(cat, date_col(table_name))
        THEN Timestamp(MaxOf({r.date : r \in {q \in Rows(cat) : q.ts_code = t}}))
        ELSE NoneCell]

\* datafeed.py:979-980 _get_table_date(latest=True): the global max
get_table_date_latest(cat) == Timestamp(MaxOf({r.date : r \in Rows(cat)}))

\* the tables created with a PRIMARY KEY (duckdb) or a unique index
\* (mongodb): datafeed.py:297-323 and its copies; the suspension table has
\* neither (datafeed.py:619-630); chdb's MergeTree engines accept duplicates
UniqueKey(db, cat) == db \in {"duckdb", "mongodb"} /\ cat # "suspend"

\* the order of the documents of a frame: newest first, then by ticker
RowBefore(a, b) ==
    \/ a.date > b.date
    \/ a.date = b.date /\ \E i, j \in 1..Len(TickerOrder) :
            i < j /\ TickerOrder[i] = a.ts_code /\ TickerOrder[j] = b.ts_code

\* pymongo insert_many (ordered): the documents before the first one that
\* violates the unique index are stored
OrderedPrefix(data, stored) ==
    {r \in data : \A q \in data : (q = r \/ RowBefore(q, r)) => q \notin stored}

\* datafeed.py:799-828 _insert_df_to_table: the rows after the insert and
\* the exception raised, if any.  duckdb rejects the whole statement on a
\* PRIMARY KEY conflict; mongodb's BulkWriteError is swallowed by _query
\* (datafeed.py:936-938), but insert_many of an empty list of documents
\* raises TypeError, which _query does not catch
insert_df_to_table(db, cat, data) ==
    LET old == tables[cat].rows
        df == data.rows
        stored == BagToSet(old)
    IN  IF db = "mongodb" /\ df = {}
        THEN [rows |-> old, err |-> "TypeError"]
        ELSE IF ~UniqueKey(db, cat)
        THEN [rows |-> old (+) SetToBag(df), err |-> "none"]
        ELSE IF db = "duckdb"
        THEN (IF df \cap stored # {}
              THEN [rows |-> old, err |-> "ConstraintException"]
              ELSE [rows |-> old (+) SetToBag(df), err |-> "none"])
        ELSE [rows |-> old (+) SetToBag(OrderedPrefix(df, stored)), err |-> "none"]

----------------------------------------------------------------------------
(* DataFeedManager: construction and the sync operations *)

\* datafeed.py:219-220: the defaults of start_date and end_date
DefaultStart == 20050101
DefaultEnd == 20231231

\* the ticker lists and date ranges a manager is constructed with
TickerLists == {<<T1>>, <<T1, T2>>, <<T3, T1>>}
StartDates == {NoDate, YMDOf(4)}
EndDates == {NoDate, YMDOf(FirstDay)}
\* the sync runs are configured with a start date inside the horizon (the
\* default start lies before its first day)
SyncStartDates == StartDates \ {NoDate}

\* datafeed.py:197-223 DataFeedManager.__init__
NewManager(tl, sd, ed, d) ==
    [ticker_list |-> tl,
     start_date  |-> Str(IF sd = NoDate THEN DefaultStart ELSE sd),
     end_date    |-> Str(IF ed = NoDate THEN DefaultEnd ELSE ed),
     TODAY       |-> strftime(Timestamp(d))]

\* datafeed.py:69-78 TSDataFeed.__init__ (TODAY is read from the clock)
TSDataFeed(ticker, start, end) ==
    [ticker |-> ticker,
     START |-> IF start.kind = "None" THEN Str(DefaultStart) ELSE start,
     END |-> end,
     TODAY |-> strftime(Timestamp(today))]

\* a unit of a sync operation: the entity, the feed built for it and the
\* branch that built it
TickerUnit(feed, mode, cutoff) ==
    [shape |-> "ticker", ticker |-> feed.ticker, day |-> NoDate,
     feed |-> feed, mode |-> mode, cutoff |-> cutoff]
DateUnit(d, mode) ==
    [shape |-> "date", ticker |-> "", day |-> d,
     feed |-> TSDataFeed("", Str(DefaultStart), Str(DefaultEnd)),
     mode |-> mode, cutoff |-> Str(0)]
\* the one call of fetch_stock_basic_data, made on data_feeds[0]
\* (datafeed.py:706)
BasicUnit(feed, list_status) ==
    [shape |-> "ticker", ticker |-> feed.ticker, day |-> NoDate,
     feed |-> feed, mode |-> "full", cutoff |-> Str(0),
     list_status |-> list_status]

Map(f(_), seq) == [i \in 1..Len(seq) |-> f(seq[i])]

\* datafeed.py:253-272 _load_datafeed(ticker_list, update=True, table_name):
\* each feed starts at _get_ticker_date(table_date, ticker, shift=1) and
\* ends at self.TODAY
load_datafeed_update(table_name, cat, tl) ==
    LET table_date == get_table_date(table_name, cat)
        mk(t) == TSDataFeed(t, get_ticker_date(table_date[t], 1), mgr.TODAY)
    IN  Map(mk, tl)

\* datafeed.py:266-270 _load_datafeed(ticker_list, start_date, end_date)
load_datafeed(tl, start, end) ==
    LET mk(t) == TSDataFeed(t, start, end) IN Map(mk, tl)

\* datafeed.py:340 list(set(self.ticker_list).difference(table_ticker_list))
extra_ticker_list(cat) ==
    LET inTable == {r.ts_code : r \in Rows(cat)}
        mine == {mgr.ticker_list[i] : i \in 1..Len(mgr.ticker_list)}
    IN  SelectSeq(TickerOrder, LAMBDA t : t \in mine \ inTable)

\* datafeed.py:331-347 (and 404-419, 497-512, 572-589): the units of an
\* incremental run, the tickers of the table first, then the extra ones;
\* the dividend cutoff is _get_ticker_date(table_date, ticker, shift=1)
UpdateUnits(table_name, cat) ==
    LET table_date == get_table_date(table_name, cat)
        ext(f) == TickerUnit(f, "extend", get_ticker_date(table_date[f.ticker], 1))
        bf(f) == TickerUnit(f, "backfill", Str(0))
    IN  Map(ext, load_datafeed_update(table_name, cat, get_table_ticker(cat)))
        \o Map(bf, load_datafeed(extra_ticker_list(cat), mgr.start_date, mgr.TODAY))

\* datafeed.py:352 zip(self.ticker_list, self.data_feeds), the feeds built
\* by __init__ (datafeed.py:221)
FullUnits ==
    LET fl(f) == TickerUnit(f, "full", Str(0))
    IN  Map(fl, load_datafeed(mgr.ticker_list, mgr.start_date, mgr.end_date))

SetToSortedSeq(S) ==
    LET all == [i \in 1..(MaxDay + 1) |-> i - 1]
    IN  SelectSeq(all, LAMBDA d : d \in S)

\* datafeed.py:634-637 and 646-648: one unit per trade day
SuspendUnits(start, end, mode) ==
    LET du(d) == DateUnit(d, mode)
    IN  Map(du, SetToSortedSeq(get_trade_day(start, end)))

IdleRun ==
    [pc |-> "idle", cat |-> "none", update |-> FALSE, units |-> <<>>, idx |-> 1,
     data |-> NoneVal, err |-> "none", baseline |-> TRUE, created |-> FALSE,
     absent |-> {}, lost |-> FALSE, table |-> "none"]

NoPrev ==
    [cat |-> "none", update |-> FALSE, pc |-> "idle", err |-> "none",
     rows |-> EmptyBag, baseline |-> TRUE, mgr |-> mgr, today |-> today,
     lost |-> FALSE, table |-> "none"]

\* the record of the operation that has just ended
Summary ==
    IF run.cat = "none" THEN prev
    ELSE [cat |-> run.cat, update |-> run.update, pc |-> run.pc, err |-> run.err,
          rows |-> tables[run.cat].rows, baseline |-> run.baseline,
          mgr |-> mgr, today |-> today, lost |-> run.lost, table |-> run.table]

InitSync ==
    /\ database \in Databases
    /\ today = FirstDay
    /\ mgr \in {NewManager(tl, sd, ed, FirstDay) :
                    tl \in TickerLists, sd \in SyncStartDates, ed \in EndDates}
    /\ tables = [c \in Categories |-> [exists |-> FALSE, rows |-> EmptyBag]]
    /\ run = IdleRun
    /\ fetchlog = <<>>
    /\ prev = NoPrev
    /\ nops = 0
    \* no limiter is exercised
    /\ calls = <<>>
    /\ start_time = <<>>
    /\ lock = <<>>
    /\ now = 0
    /\ tpc = <<>>
    /\ top = <<>>
    /\ wake_at = <<>>
    /\ admitted = <<>>
    /\ downstream = 0
    \* no dispatcher runs, the manager is given
    /\ tasks = <<>>
    /\ ppc = "none"
    /\ threads = <<>>
    /\ running = <<>>
    /\ task_queue = <<>>
    /\ unfinished_tasks = 0
    /\ invocations = <<>>
    /\ finished = {}
    /\ nloop = 0
    /\ args = <<>>
    /\ made = <<>>
    /\ cfg = <<>>
    /\ heap = <<>>
    /\ instance = NoInstance
    /\ handles = <<>>
    /\ nconn = 0
    /\ conn_err = "none"
    /\ wrun = <<>>

NoOpRunning == run.pc \in {"idle", "done", "error"}

\* a later process constructs a new manager on the same backend, with the
\* same configured date range (datafeed.py:197-223)
Construct(tl, d) ==
    /\ NoOpRunning
    /\ nops < MaxOps
    /\ d >= today
    /\ today' = d
    /\ mgr' = [mgr EXCEPT !.ticker_list = tl, !.TODAY = strftime(Timestamp(d))]
    /\ run' = IdleRun
    /\ fetchlog' = <<>>
    /\ prev' = Summary
    /\ UNCHANGED <<database, tables, nops, rlvars, ptvars, newvars, parvars>>

\* a schema creation that does not look at the table first
ensure_table_unchecked(cat) ==
    [tables |-> [tables EXCEPT ![cat] = [exists |-> TRUE, rows |-> EmptyBag]],
     created |-> TRUE]

\* datafeed.py:276-324 (and 364-398, 435-491, 528-566, 605-631, 661-704):
\* if not self._check_table_exists(table_name): create the table, empty
ensure_table(cat) ==
    IF ~check_table_exists(cat)
    THEN [tables |-> [tables EXCEPT ![cat] = [exists |-> TRUE, rows |-> EmptyBag]],
          created |-> TRUE]
    ELSE [tables |-> tables, created |-> FALSE]

\* the start of fetch_*_data up to its first loop: the table is created if
\* absent (datafeed.py:276-324), then
\*   update, ticker categories: _check_table_empty and LookupError
\*       (datafeed.py:327-331), the units of both loops
\*   update, suspension: no emptiness check; on an empty table
\*       _get_table_date(latest=True) ends in a KeyError for the missing
\*       max_date column (mongodb) or hands NaT to next_trade_day, where
\*       is_holiday raises NotImplementedError (duckdb) (datafeed.py:633-637)
\*   full sync: the units of the loop (datafeed.py:352, 646-649, 706)
Started(cat, update, had) ==
    [pc |-> "unit", cat |-> cat, update |-> update, units |-> <<>>, idx |-> 1,
     data |-> NoneVal, err |-> "none", baseline |-> had,
     created |-> ensure_table(cat).created, lost |-> FALSE,
     table |-> table_name_of(cat),
     absent |-> {t \in Tickers :
                    /\ \E i \in 1..Len(mgr.ticker_list) : mgr.ticker_list[i] = t
                    /\ ~\E r \in Rows(cat) : r.ts_code = t}]

Failed(r, e) == [r EXCEPT !.pc = "error", !.err = e]

\* a loop that inserts before it has fetched
insert_before_fetch(r, us) == [r EXCEPT !.units = us, !.pc = "insert"]

\* the loop over the units is entered, or skipped when there is none
WithUnits(r, us) ==
    [r EXCEPT !.units = us, !.pc = IF us = <<>> THEN "done" ELSE "unit"]

\* under update, past the emptiness check, _load_datafeed calls
\* _get_table_date (datafeed.py:255): duckdb raises a BinderException when
\* the table has no column date_col
BeginOp(cat, update, list_status, table_name) ==
    LET r == [Started(cat, update, tables[cat].rows # EmptyBag)
                EXCEPT !.table = table_name]
    IN  IF cat = "basic"
        THEN WithUnits(r, <<BasicUnit(TSDataFeed(mgr.ticker_list[1],
                                mgr.start_date, mgr.end_date), list_status)>>)
        ELSE IF update /\ ~HasBranch(database)
        THEN Failed(r, "UnboundLocalError")
        ELSE IF update /\ cat = "suspend"
        THEN (IF check_table_empty(cat)
              THEN Failed(r, IF database = "mongodb" THEN "KeyError"
                                                    ELSE "NotImplementedError")
              ELSE WithUnits(r, SuspendUnits(
                        strftime(next_trade_day(get_table_date_latest(cat))),
                        mgr.TODAY, "extend")))
        ELSE IF update
        THEN (IF check_table_empty(cat)
              THEN Failed(r, "LookupError")
              ELSE IF database = "duckdb" /\ ~HasColumn(cat, date_col(table_name))
              THEN Failed(r, "BinderException")
              ELSE WithUnits(r, UpdateUnits(table_name, cat)))
        ELSE IF cat = "suspend"
        THEN WithUnits(r, SuspendUnits(mgr.start_date, mgr.end_date, "full"))
        ELSE WithUnits(r, FullUnits)

\* the operations of one behaviour work on one table: an operation reads
\* and writes the table of its own category only; list_status is an
\* argument of fetch_stock_basic_data alone (datafeed.py:660), table_name
\* the name the table of the category goes by in this behaviour
StartOp(cat, update, list_status, table_name) ==
    /\ NoOpRunning
    /\ nops < MaxOps
    /\ table_name \in NamesOf(cat)
    /\ update => cat # "basic"
    /\ cat # "basic" => list_status = "L"
    /\ Summary.cat \in {"none", cat}
    /\ Summary.cat = cat => Summary.table = table_name
    /\ nops' = nops + 1
    /\ tables' = ensure_table(cat).tables
    /\ run' = BeginOp(cat, update, list_status, table_name)
    /\ fetchlog' = <<>>
    /\ prev' = Summary
    /\ UNCHANGED <<database, mgr, today, rlvars, ptvars, newvars, parvars>>

Unit == run.units[run.idx]

\* the move to the next unit of the loop, or past its end
\* (logger.info "... completed", datafeed.py:349, 361)
Advance(r) ==
    [r EXCEPT !.idx = r.idx + 1, !.data = NoneVal,
              !.pc = IF r.idx + 1 > Len(r.units) THEN "done" ELSE "unit"]

\* the rate-limited fetch of a unit by category and branch
\* (datafeed.py:333, 343, 354; 406, 415, 425; 499, 508, 518; 576, 585, 595;
\* 639, 651; 706)
FetchResult(cat, u) ==
    IF cat = "basic" THEN fetch_stock_basic(u.list_status)
    ELSE IF cat = "suspend" THEN fetch_stock_suspend(u.day)
    ELSE IF cat = "dividend"
    THEN fetch_stock_dividend(u.feed, u.mode = "extend", u.cutoff)
    ELSE fetch_range(cat, u.feed,
                     u.mode = "extend" \/ (u.mode = "backfill" /\ cat = "price"))

\* the date range the external call of a unit is issued with
CallEnd(cat, u) ==
    IF u.mode = "extend" \/ (u.mode = "backfill" /\ cat = "price")
    THEN u.feed.TODAY ELSE u.feed.END

\* persisted: the dates stored for the unit's ticker when the call is issued
\* held: the table holds a record of the unit's ticker or trade date then
LogEntry(cat, u) ==
    [shape |-> u.shape, ticker |-> u.ticker, day |-> u.day, mode |-> u.mode,
     start |-> u.feed.START, end |-> CallEnd(cat, u),
     persisted |-> {r.date : r \in {q \in Rows(cat) : q.ts_code = u.ticker}},
     held |-> \E r \in Rows(cat) :
                IF u.shape = "ticker" THEN r.ts_code = u.ticker ELSE r.date = u.day]

\* a storage call made while the connection to the backend is lost:
\* duckdb.connect (datafeed.py:818, 871) and chdb's Session.query
\* (datafeed.py:864) raise; mongodb's _query catches PyMongoError, prints
\* it and returns None (datafeed.py:936-938)
lost_call(db) == IF db = "mongodb" THEN "none" ELSE "ConnectionError"

\* full sync: the unit is already in the table (datafeed.py:353, 359-360)
SkipExisting ==
    /\ run.pc = "unit"
    /\ ~run.update /\ run.cat # "basic"
    /\ HasBranch(database) /\ ~run.lost
    /\ check_data_exists(database, run.cat, Unit)
    /\ run' = Advance(run)
    /\ UNCHANGED <<database, mgr, today, tables, fetchlog, prev, nops, rlvars, ptvars, newvars, parvars>>

\* full sync on a backend _check_data_exists has no branch for
\* (datafeed.py:755-780): result is unbound
LookupUnbound ==
    /\ run.pc = "unit"
    /\ ~run.update /\ run.cat # "basic"
    /\ ~HasBranch(database)
    /\ run' = Failed(run, "UnboundLocalError")
    /\ UNCHANGED <<database, mgr, today, tables, fetchlog, prev, nops, rlvars, ptvars, newvars, parvars>>

\* the connection is lost when _check_data_exists queries the table: the
\* query raises, or returns None and "not None" sends the loop on to the
\* fetch (datafeed.py:353-354)
LookupLost ==
    /\ run.pc = "unit"
    /\ ~run.update /\ run.cat # "basic"
    /\ HasBranch(database) /\ ~run.lost
    /\ run' = IF lost_call(database) = "none"
              THEN [run EXCEPT !.lost = TRUE]
              ELSE [Failed(run, lost_call(database)) EXCEPT !.lost = TRUE]
    /\ UNCHANGED <<database, mgr, today, tables, fetchlog, prev, nops, rlvars, ptvars, newvars, parvars>>

MustFetch ==
    /\ run.pc = "unit"
    /\ \/ run.update
       \/ run.cat = "basic"
       \/ HasBranch(database)
            /\ (run.lost \/ ~check_data_exists(database, run.cat, Unit))

\* the external call raises: nothing in fetch_*_data catches it
FetchRaises ==
    /\ MustFetch
    /\ fetchlog' = Append(fetchlog, LogEntry(run.cat, Unit))
    /\ run' = Failed(run, "AdapterError")
    /\ UNCHANGED <<database, mgr, today, tables, prev, nops, rlvars, ptvars, newvars, parvars>>

\* the external call returns; an invalid result is logged and skipped
\* (datafeed.py:334-336), a valid one goes on to the insert; the basic
\* category inserts whatever came back (datafeed.py:707-709)
FetchReturns ==
    /\ MustFetch
    /\ fetchlog' = Append(fetchlog, LogEntry(run.cat, Unit))
    /\ LET data == FetchResult(run.cat, Unit)
       IN  run' = IF check_validity(data) \/ run.cat = "basic"
                  THEN [run EXCEPT !.pc = "insert", !.data = data]
                  ELSE Advance(run)
    /\ UNCHANGED <<database, mgr, today, tables, prev, nops, rlvars, ptvars, newvars, parvars>>

\* self._insert_df_to_table(data, table_name) (datafeed.py:337 and copies)
InsertUnit ==
    /\ run.pc = "insert"
    /\ LET res == IF run.lost /\ check_validity(run.data)
                  THEN [rows |-> tables[run.cat].rows, err |-> lost_call(database)]
                  ELSE insert_df_to_table(database, run.cat, run.data)
       IN  /\ tables' = [tables EXCEPT ![run.cat].rows = res.rows]
           /\ run' = IF res.err = "none" THEN Advance(run) ELSE Failed(run, res.err)
    /\ UNCHANGED <<database, mgr, today, fetchlog, prev, nops, rlvars, ptvars, newvars, parvars>>

\* the connection is lost when _insert_df_to_table sends its rows: nothing
\* is stored
InsertLost ==
    /\ run.pc = "insert" /\ ~run.lost
    /\ check_validity(run.data)
    /\ run' = IF lost_call(database) = "none"
              THEN [Advance(run) EXCEPT !.lost = TRUE]
              ELSE [Failed(run, lost_call(database)) EXCEPT !.lost = TRUE]
    /\ UNCHANGED <<database, mgr, today, tables, fetchlog, prev, nops, rlvars, ptvars, newvars, parvars>>

NextSync ==
    \/ \E tl \in TickerLists, d \in Days : Construct(tl, d)
    \/ \E cat \in Categories, update \in BOOLEAN, list_status \in ListStatuses :
          \E table_name \in NamesOf(cat) :
            StartOp(cat, update, list_status, table_name)
    \/ SkipExisting
    \/ LookupUnbound
    \/ LookupLost
    \/ FetchRaises
    \/ FetchReturns
    \/ InsertUnit
    \/ InsertLost

NextRL ==
    \/ \E t \in Threads : Call(t)
    \/ \E t \in Threads : Admit(t)
    \/ \E t \in Threads : BlockAndSleep(t)
    \/ \E t \in Threads : BlockNoSleep(t)
    \/ \E t \in Threads : WakeUp(t)
    \/ \E t \in Threads : Downstream(t)
    \/ \E t \in Threads : Undecorated(t)
    \/ Tick

SpecRL == InitRL /\ [][NextRL]_vars

\* the limiters are alike: two rate-limited methods and the one without
\* a limiter stand for all six
LiveOps == {"fetch_volumn_price", "fetch_stock_limit", "fetch_stock_basic"}

InitRLLive ==
    /\ calls = [o \in Decorated |-> 0]
    /\ start_time = [o \in Decorated |-> 0]
    /\ lock = [o \in Decorated |-> NoThread]
    /\ now = 0
    /\ tpc = [t \in Threads |-> "idle"]
    /\ top \in [Threads -> LiveOps]
    /\ wake_at = [t \in Threads |-> 0]
    /\ admitted = <<>>
    /\ downstream = 0
    \* no sync operation takes place
    /\ database = "duckdb"
    /\ today = 0
    /\ mgr = <<>>
    /\ tables = <<>>
    /\ run = <<>>
    /\ fetchlog = <<>>
    /\ prev = <<>>
    /\ nops = 0
    \* no dispatcher runs, no manager is constructed
    /\ tasks = <<>>
    /\ ppc = "none"
    /\ threads = <<>>
    /\ running = <<>>
    /\ task_queue = <<>>
    /\ unfinished_tasks = 0
    /\ invocations = <<>>
    /\ finished = {}
    /\ nloop = 0
    /\ args = <<>>
    /\ made = <<>>
    /\ cfg = <<>>
    /\ heap = <<>>
    /\ instance = NoInstance
    /\ handles = <<>>
    /\ nconn = 0
    /\ conn_err = "none"
    /\ wrun = <<>>

\* a fair lock and a fair scheduler: a thread waiting for a lock that stays
\* free gets it, a sleeper wakes, an admitted call runs, the clock advances
SpecRLLive ==
    /\ InitRLLive /\ [][NextRL]_vars
    /\ WF_vars(Tick)
    /\ \A t \in Threads :
        /\ WF_vars(Admit(t) \/ BlockAndSleep(t) \/ BlockNoSleep(t))
        /\ WF_vars(WakeUp(t))
        /\ WF_vars(Downstream(t))

SpecSync == InitSync /\ [][NextSync]_vars

----------------------------------------------------------------------------
(* The dispatcher: util.py worker and parallel_task *)

\* the table names a task names in param[0]: the defaults of
\* datafeed.py:363, 434, 527, 604 and a price table (add_index.py:8)
TableNames == {"stock_daily_real", "stock_daily_limit", "stock_daily_fundamental",
               "stock_dividend", "stock_suspend_status"}

\* param[0] is any string the caller writes: a name without underscore too
TaskNames == TableNames \cup {"prices"}

Range(seq) == {seq[i] : i \in 1..Len(seq)}

\* str.split("_") on the names that occur
split(name) ==
    CASE name = "stock_daily_real" -> <<"stock", "daily", "real">>
      [] name = "stock_daily_limit" -> <<"stock", "daily", "limit">>
      [] name = "stock_daily_fundamental" -> <<"stock", "daily", "fundamental">>
      [] name = "stock_dividend" -> <<"stock", "dividend">>
      [] name = "stock_suspend_status" -> <<"stock", "suspend", "status">>
      [] name = "fetch_stock_basic_data" -> <<"fetch", "stock", "basic", "data">>
      [] name = "fetch_stock_dividend_data" -> <<"fetch", "stock", "dividend", "data">>
      [] name = "fetch_stock_fundamental_data" -> <<"fetch", "stock", "fundamental", "data">>
      [] name = "fetch_stock_limit_data" -> <<"fetch", "stock", "limit", "data">>
      [] name = "fetch_stock_suspend_data" -> <<"fetch", "stock", "suspend", "data">>
      [] name = "fetch_volumn_price_data" -> <<"fetch", "volumn", "price", "data">>
      [] name = "prices" -> <<"prices">>

\* util.py:95-96: the public functions of DataFeedManager, in the order of
\* inspect.getmembers (sorted by name)
fetch_methods ==
    <<"fetch_stock_basic_data", "fetch_stock_dividend_data",
      "fetch_stock_fundamental_data", "fetch_stock_limit_data",
      "fetch_stock_suspend_data", "fetch_volumn_price_data">>

\* util.py:115: the first method whose name fragments contain the last but
\* one fragment of param[0], else manager.fetch_volumn_price_data
fetch_func(param) ==
    LET parts == split(param[1])
        frag == parts[Len(parts) - 1]
        hits == SelectSeq(fetch_methods, LAMBDA m : frag \in Range(split(m)))
    IN  IF hits = <<>> THEN "fetch_volumn_price_data" ELSE Head(hits)

\* util.py:115 param[0].split("_")[-2]: IndexError when the name has fewer
\* than two fragments (fetch_methods is never empty, so the generator
\* evaluates the subscript)
routing_raises(param) == Len(split(param[1])) < 2

\* the task lists parallel_task is called with
TaskLists ==
    UNION {[1..n -> {<<name>> : name \in TaskNames}] : n \in 0..MaxTasks}

\* util.py:99 num_threads = len(tasks)
num_threads == Len(tasks)

\* the worker threads are numbered in the order they are started
Workers == 1..MaxTasks

\* the stop item of util.py:123
Sentinel == [func |-> "None", task |-> 0]

InitPT ==
    /\ tasks \in TaskLists
    /\ ppc = "start"
    /\ threads = <<>>
    /\ running = <<>>
    /\ task_queue = <<>>
    /\ unfinished_tasks = 0
    /\ invocations = <<>>
    /\ finished = {}
    /\ nloop = 0
    \* no limiter, no sync operation, no construction
    /\ calls = <<>>
    /\ start_time = <<>>
    /\ lock = <<>>
    /\ now = 0
    /\ tpc = <<>>
    /\ top = <<>>
    /\ wake_at = <<>>
    /\ admitted = <<>>
    /\ downstream = 0
    /\ database = "duckdb"
    /\ today = 0
    /\ mgr = <<>>
    /\ tables = <<>>
    /\ run = <<>>
    /\ fetchlog = <<>>
    /\ prev = <<>>
    /\ nops = 0
    /\ args = <<>>
    /\ made = <<>>
    /\ cfg = <<>>
    /\ heap = <<>>
    /\ instance = NoInstance
    /\ handles = <<>>
    /\ nconn = 0
    /\ conn_err = "none"
    /\ wrun = <<>>

\* util.py:103-106: one thread per task is started; it blocks in queue.get
StartThread ==
    /\ ppc = "start" /\ nloop < num_threads
    /\ threads' = Append(threads, "get")
    /\ running' = Append(running, Sentinel)
    /\ nloop' = nloop + 1
    /\ UNCHANGED <<tasks, ppc, task_queue, unfinished_tasks, invocations, finished,
                   rlvars, syncvars, newvars, parvars>>

\* util.py:109-116: the task is routed and put on the queue
PutTask ==
    /\ ppc = "put" /\ nloop < Len(tasks)
    /\ ~routing_raises(tasks[nloop + 1])
    /\ task_queue' = Append(task_queue,
                        [func |-> fetch_func(tasks[nloop + 1]), task |-> nloop + 1])
    /\ unfinished_tasks' = unfinished_tasks + 1
    /\ nloop' = nloop + 1
    /\ UNCHANGED <<tasks, ppc, threads, running, invocations, finished,
                   rlvars, syncvars, newvars, parvars>>

\* util.py:115: the routing expression raises; nothing in parallel_task
\* catches it, the function ends there without touching queue or threads
PutRaises ==
    /\ ppc = "put" /\ nloop < Len(tasks)
    /\ routing_raises(tasks[nloop + 1])
    /\ ppc' = "raised"
    /\ UNCHANGED <<tasks, threads, running, task_queue, unfinished_tasks,
                   invocations, finished, nloop, rlvars, syncvars, newvars, parvars>>

\* util.py:119 task_queue.join(): returns when unfinished_tasks is zero
QueueJoin ==
    /\ ppc = "join"
    /\ unfinished_tasks = 0
    /\ ppc' = "stop"
    /\ nloop' = 0
    /\ UNCHANGED <<tasks, threads, running, task_queue, unfinished_tasks,
                   invocations, finished, rlvars, syncvars, newvars, parvars>>

\* util.py:122-123: one stop item per thread
PutStop ==
    /\ ppc = "stop" /\ nloop < num_threads
    /\ task_queue' = Append(task_queue, Sentinel)
    /\ unfinished_tasks' = unfinished_tasks + 1
    /\ nloop' = nloop + 1
    /\ UNCHANGED <<tasks, ppc, threads, running, invocations, finished,
                   rlvars, syncvars, newvars, parvars>>

\* a thread whose target has neither returned nor raised
is_alive_unchecked(st) == FALSE

is_alive(st) == st \in {"get", "run"}

\* util.py:125-126 thread.join(), thread by thread
ThreadJoin ==
    /\ ppc = "thread_join" /\ nloop < Len(threads)
    /\ ~is_alive(threads[nloop + 1])
    /\ nloop' = nloop + 1
    /\ UNCHANGED <<tasks, ppc, threads, running, task_queue, unfinished_tasks,
                   invocations, finished, rlvars, syncvars, newvars, parvars>>

\* the end of a for loop of parallel_task (util.py:103, 109, 122, 125); past
\* the last loop the function returns
LoopExit ==
    /\ \/ ppc = "start" /\ nloop = num_threads /\ ppc' = "put"
       \/ ppc = "put" /\ nloop = Len(tasks) /\ ppc' = "join"
       \/ ppc = "stop" /\ nloop = num_threads /\ ppc' = "thread_join"
       \/ ppc = "thread_join" /\ nloop = Len(threads) /\ ppc' = "returned"
    /\ nloop' = 0
    /\ UNCHANGED <<tasks, threads, running, task_queue, unfinished_tasks,
                   invocations, finished, rlvars, syncvars, newvars, parvars>>

\* util.py:83, 86: queue.get() hands over a task and the worker calls it
GetTask(w) ==
    /\ w <= Len(threads) /\ threads[w] = "get"
    /\ task_queue # <<>> /\ Head(task_queue).func # "None"
    /\ task_queue' = Tail(task_queue)
    /\ threads' = [threads EXCEPT ![w] = "run"]
    /\ running' = [running EXCEPT ![w] = Head(task_queue)]
    /\ invocations' = Append(invocations, Head(task_queue))
    /\ UNCHANGED <<tasks, ppc, unfinished_tasks, finished, nloop,
                   rlvars, syncvars, newvars, parvars>>

\* util.py:83-85: queue.get() hands over the stop item, the worker breaks
GetSentinel(w) ==
    /\ w <= Len(threads) /\ threads[w] = "get"
    /\ task_queue # <<>> /\ Head(task_queue).func = "None"
    /\ task_queue' = Tail(task_queue)
    /\ threads' = [threads EXCEPT ![w] = "exited"]
    /\ UNCHANGED <<tasks, ppc, running, unfinished_tasks, invocations, finished,
                   nloop, rlvars, syncvars, newvars, parvars>>

\* util.py:86-87: the call returns, queue.task_done()
TaskReturns(w) ==
    /\ w <= Len(threads) /\ threads[w] = "run"
    /\ finished' = finished \cup {running[w].task}
    /\ unfinished_tasks' = unfinished_tasks - 1
    /\ threads' = [threads EXCEPT ![w] = "get"]
    /\ UNCHANGED <<tasks, ppc, running, task_queue, invocations, nloop,
                   rlvars, syncvars, newvars, parvars>>

\* util.py:86: the call raises (a fetch_*_data that ends in an error); the
\* worker has no handler, its thread ends and task_done is never reached
TaskRaises(w) ==
    /\ w <= Len(threads) /\ threads[w] = "run"
    /\ threads' = [threads EXCEPT ![w] = "died"]
    /\ UNCHANGED <<tasks, ppc, running, task_queue, unfinished_tasks, invocations,
                   finished, nloop, rlvars, syncvars, newvars, parvars>>

NextPT ==
    \/ StartThread
    \/ PutTask
    \/ PutRaises
    \/ QueueJoin
    \/ PutStop
    \/ ThreadJoin
    \/ LoopExit
    \/ \E w \in Workers : GetTask(w)
    \/ \E w \in Workers : GetSentinel(w)
    \/ \E w \in Workers : TaskReturns(w)
    \/ \E w \in Workers : TaskRaises(w)

SpecPT == InitPT /\ [][NextPT]_vars

\* every thread that can take a step eventually takes one
SpecPTLive == InitPT /\ [][NextPT]_vars /\ WF_vars(NextPT)

----------------------------------------------------------------------------
(* Construction: DataFeedManager(source, database, ticker_list, ...) *)

\* the source and backend identifiers a caller may pass
Sources == {"tushare", "csv"}
BackendIds == Databases \cup {"mysql"}

ArgTickerLists == UNION {[1..n -> Tickers] : n \in 0..MaxTickers}

\* base.py:48-61 connection_factory: an identifier outside the three
\* backends ends in KeyError (no entry in database_cfg) or, with an entry,
\* in NotImplementedError
connection_factory(db_type) ==
    IF db_type \in Databases THEN {"none"} ELSE {"KeyError", "NotImplementedError"}

\* the entries of db_config.yaml under "database": the file is read at
\* import (base.py:1-3) and is whatever the installation wrote
Hosts == {"localhost", "10.0.0.2"}
Ports == {27017}
Paths == {"data/a.db", "data/b.db"}
ConfigEntries ==
    [host : Hosts, port : Ports, username : {"root"}, password : {"secret"},
     data_path : Paths, factor_path : {"data/factor.db"}]
Configs == [Databases -> ConfigEntries]

\* Python's None as a field value
None == "None"
\* base.py:28-34 ConnectionBuilder.__init__: the four named arguments are
\* kept, every other key of the entry falls into **kwargs and is dropped;
\* the two path keys are absent, which DatabaseConnection.__init__
\* (base.py:15) reads as None
ConnectionBuilder(entry) ==
    [host |-> entry.host, port |-> entry.port, username |-> entry.username,
     password |-> entry.password, data_path |-> None, factor_path |-> None]

\* base.py:36-38
set_data_file_path(builder, file_path) == [builder EXCEPT !.data_path = file_path]

\* base.py:40-42
set_factor_file_path(builder, file_path) == [builder EXCEPT !.factor_path = file_path]

\* base.py:49-58: the builder as connection_factory leaves it before build()
builder_of(db_type) ==
    IF db_type = "mongodb"
    THEN ConnectionBuilder(cfg[db_type])
    ELSE set_factor_file_path(
             set_data_file_path(ConnectionBuilder(cfg[db_type]), cfg[db_type].data_path),
             cfg[db_type].factor_path)

\* base.py:10-13 DatabaseConnection.__new__: one object for the process,
\* allocated by the first call; base.py:15-21 __init__ then runs on the
\* object returned, whether new or not, and assigns every field
build(builder) ==
    LET fresh == instance = NoInstance
        ref == IF fresh THEN Len(heap) + 1 ELSE instance
        allocated == IF fresh THEN Append(heap, builder) ELSE heap
    IN  [ref |-> ref, instance |-> ref,
         heap |-> [allocated EXCEPT ![ref] = builder]]

\* datafeed.py:160-168 DataFeedFactory.create_data_feed
create_data_feed(source) == IF source = "tushare" THEN "none" ELSE "ValueError"

\* datafeed.py:221, 266-270 self._load_datafeed(): one create_data_feed per
\* ticker of the list, none for an empty list
load_datafeed_err(source, ticker_list) ==
    IF ticker_list = <<>> THEN "none" ELSE create_data_feed(source)

Raised(e) == [status |-> "raised", err |-> e]

\* datafeed.py:197-223 DataFeedManager.__init__: the outcomes of the call
new(a) ==
    IF connection_factory(a.database) # {"none"}
    THEN {Raised(e) : e \in connection_factory(a.database)}
    ELSE IF load_datafeed_err(a.source, a.ticker_list) # "none"
    THEN {Raised(load_datafeed_err(a.source, a.ticker_list))}
    ELSE {[status |-> "object", err |-> "none",
           self |-> [source |-> a.source, database |-> a.database,
                     fields |-> NewManager(a.ticker_list, a.start_date,
                                           a.end_date, today)]]}

InitNew ==
    /\ args \in [source : Sources, database : BackendIds,
                 ticker_list : ArgTickerLists,
                 start_date : StartDates, end_date : EndDates]
    /\ made = [status |-> "pending", err |-> "none"]
    /\ cfg \in Configs
    /\ heap = <<>>
    /\ instance = NoInstance
    /\ handles = <<>>
    /\ nconn = 0
    /\ conn_err = "none"
    /\ wrun = <<>>
    /\ today = FirstDay
    \* no limiter, no sync operation, no dispatcher
    /\ calls = <<>>
    /\ start_time = <<>>
    /\ lock = <<>>
    /\ now = 0
    /\ tpc = <<>>
    /\ top = <<>>
    /\ wake_at = <<>>
    /\ admitted = <<>>
    /\ downstream = 0
    /\ database = "duckdb"
    /\ mgr = <<>>
    /\ tables = <<>>
    /\ run = <<>>
    /\ fetchlog = <<>>
    /\ prev = <<>>
    /\ nops = 0
    /\ tasks = <<>>
    /\ ppc = "none"
    /\ threads = <<>>
    /\ running = <<>>
    /\ task_queue = <<>>
    /\ unfinished_tasks = 0
    /\ invocations = <<>>
    /\ finished = {}
    /\ nloop = 0

\* the constructor call
New ==
    /\ made.status = "pending"
    /\ made' \in new(args)
    \* datafeed.py:207 connection = connection_factory(database)
    /\ IF connection_factory(args.database) = {"none"}
       THEN /\ heap' = build(builder_of(args.database)).heap
            /\ instance' = build(builder_of(args.database)).instance
            /\ nconn' = nconn + 1
            /\ UNCHANGED conn_err
       ELSE /\ conn_err' = made'.err
            /\ nconn' = nconn + 1
            /\ UNCHANGED <<heap, instance>>
    /\ UNCHANGED <<args, cfg, handles, rlvars, syncvars, ptvars, parvars>>

NextNew == New

SpecNew == InitNew /\ [][NextNew]_vars

----------------------------------------------------------------------------
(* Connection handles: base.py DatabaseConnection, ConnectionBuilder and *)
(* connection_factory, called by any number of callers in one process    *)

InitConn ==
    /\ cfg \in Configs
    /\ heap = <<>>
    /\ instance = NoInstance
    /\ handles = <<>>
    /\ nconn = 0
    /\ conn_err = "none"
    /\ args = <<>>
    /\ made = <<>>
    /\ wrun = <<>>
    /\ today = FirstDay
    /\ calls = <<>>
    /\ start_time = <<>>
    /\ lock = <<>>
    /\ now = 0
    /\ tpc = <<>>
    /\ top = <<>>
    /\ wake_at = <<>>
    /\ admitted = <<>>
    /\ downstream = 0
    /\ database = "duckdb"
    /\ mgr = <<>>
    /\ tables = <<>>
    /\ run = <<>>
    /\ fetchlog = <<>>
    /\ prev = <<>>
    /\ nops = 0
    /\ tasks = <<>>
    /\ ppc = "none"
    /\ threads = <<>>
    /\ running = <<>>
    /\ task_queue = <<>>
    /\ unfinished_tasks = 0
    /\ invocations = <<>>
    /\ finished = {}
    /\ nloop = 0

\* base.py:48-61: a call that returns; the caller keeps the reference
ConnectionFactory(db_type) ==
    /\ nconn < MaxBuilds
    /\ connection_factory(db_type) = {"none"}
    /\ heap' = build(builder_of(db_type)).heap
    /\ instance' = build(builder_of(db_type)).instance
    /\ handles' = Append(handles, [db_type |-> db_type,
                                   ref |-> build(builder_of(db_type)).ref])
    /\ nconn' = nconn + 1
    /\ conn_err' = "none"
    /\ UNCHANGED <<args, made, cfg, rlvars, syncvars, ptvars, parvars>>

\* base.py:49, 59-60: a call that raises before build()
FactoryRaises(db_type) ==
    /\ nconn < MaxBuilds
    /\ connection_factory(db_type) # {"none"}
    /\ conn_err' \in connection_factory(db_type)
    /\ nconn' = nconn + 1
    /\ UNCHANGED <<args, made, cfg, heap, instance, handles,
                   rlvars, syncvars, ptvars, parvars>>

NextConn ==
    \/ \E db_type \in BackendIds : ConnectionFactory(db_type)
    \/ \E db_type \in BackendIds : FactoryRaises(db_type)

SpecConn == InitConn /\ [][NextConn]_vars

----------------------------------------------------------------------------
(* Concurrent sync operations: the workers of parallel_task on one manager *)

\* the categories parallel_task routes to with an update argument
ParCats == Categories \ {"basic"}

\* the calendar day of the concurrent operations
ParDay == FirstDay + 1

\* what a full sync of T1 from 2023-01-03, run on 2023-01-03, leaves in the
\* table of any of these categories
SeedRows == SetToBag({Row(T1, 4)})

\* a task taken from the queue and not yet called (util.py:83-86)
Queued(cat, update) ==
    [IdleRun EXCEPT !.pc = "queued", !.cat = cat, !.update = update]
        @@ [seen |-> EmptyBag, saw_absent |-> FALSE]

InitPar ==
    /\ database \in Databases
    /\ today = ParDay
    /\ mgr \in {NewManager(tl, YMDOf(4), NoDate, ParDay) : tl \in TickerLists}
    /\ tables \in {[c \in Categories |-> [exists |-> TRUE, rows |-> SeedRows]],
                   [c \in Categories |-> [exists |-> FALSE, rows |-> EmptyBag]]}
    /\ wrun \in {[w \in Workers |-> Queued(cat, update)] :
                    cat \in ParCats, update \in BOOLEAN}
    /\ run = IdleRun
    /\ fetchlog = <<>>
    /\ prev = NoPrev
    /\ nops = 0
    \* no limiter is exercised
    /\ calls = <<>>
    /\ start_time = <<>>
    /\ lock = <<>>
    /\ now = 0
    /\ tpc = <<>>
    /\ top = <<>>
    /\ wake_at = <<>>
    /\ admitted = <<>>
    /\ downstream = 0
    \* the dispatcher has started its workers and queued the tasks
    /\ tasks = <<>>
    /\ ppc = "none"
    /\ threads = <<>>
    /\ running = <<>>
    /\ task_queue = <<>>
    /\ unfinished_tasks = 0
    /\ invocations = <<>>
    /\ finished = {}
    /\ nloop = 0
    /\ args = <<>>
    /\ made = <<>>
    /\ cfg = <<>>
    /\ heap = <<>>
    /\ instance = NoInstance
    /\ handles = <<>>
    /\ nconn = 0
    /\ conn_err = "none"

\* the unit worker w is at
WUnit(w) == wrun[w].units[wrun[w].idx]

\* util.py:86 func(*args, **kwargs): the worker enters fetch_*_data and
\* evaluates "if not self._check_table_exists(table_name)" (datafeed.py:276)
ParCheckTable(w) ==
    /\ wrun[w].pc = "queued"
    /\ wrun' = [wrun EXCEPT ![w].pc = "checked",
                            ![w].saw_absent = ~check_table_exists(wrun[w].cat)]
    /\ UNCHANGED <<database, mgr, today, tables, run, fetchlog, prev, nops,
                   rlvars, ptvars, newvars>>

\* pymongo's create_collection raises CollectionInvalid when the collection
\* exists by now (datafeed.py:316, called outside _query); CREATE TABLE IF
\* NOT EXISTS of duckdb and chdb leaves an existing table alone
create_raises(db, cat) == db = "mongodb" /\ tables[cat].exists

\* datafeed.py:277-324: a worker that saw the table absent executes the
\* creation; then fetch_*_data reads what it needs to build its units (the
\* watermarks under update); seen: the rows of the table at that time
ParStart(w) ==
    LET cat == wrun[w].cat
        ext == [seen |-> tables[cat].rows, saw_absent |-> wrun[w].saw_absent]
        r == [BeginOp(cat, wrun[w].update, "L", table_name_of(cat))
                EXCEPT !.created = wrun[w].saw_absent]
    IN  /\ wrun[w].pc = "checked"
        /\ IF wrun[w].saw_absent /\ create_raises(database, cat)
           THEN /\ tables' = tables
                /\ wrun' = [wrun EXCEPT ![w] = Failed(r, "CollectionInvalid") @@ ext]
           ELSE /\ tables' = IF wrun[w].saw_absent THEN ensure_table(cat).tables
                                                   ELSE tables
                /\ wrun' = [wrun EXCEPT ![w] = r @@ ext]
        /\ UNCHANGED <<database, mgr, today, run, fetchlog, prev, nops,
                       rlvars, ptvars, newvars>>

\* the unit is looked up by a full sync (datafeed.py:353)
WLookup(w) == wrun[w].pc = "unit" /\ ~wrun[w].update

\* datafeed.py:353, 359-360: the unit is in the table, it is skipped
ParSkip(w) ==
    /\ WLookup(w) /\ HasBranch(database)
    /\ check_data_exists(database, wrun[w].cat, WUnit(w))
    /\ wrun' = [wrun EXCEPT ![w] = Advance(wrun[w])]
    /\ UNCHANGED <<database, mgr, today, tables, run, fetchlog, prev, nops,
                   rlvars, ptvars, newvars>>

\* datafeed.py:755-780: no branch of _check_data_exists for the backend
ParUnbound(w) ==
    /\ WLookup(w) /\ ~HasBranch(database)
    /\ wrun' = [wrun EXCEPT ![w] = Failed(wrun[w], "UnboundLocalError")]
    /\ UNCHANGED <<database, mgr, today, tables, run, fetchlog, prev, nops,
                   rlvars, ptvars, newvars>>

WMustFetch(w) ==
    /\ wrun[w].pc = "unit"
    /\ \/ wrun[w].update
       \/ HasBranch(database)
            /\ ~check_data_exists(database, wrun[w].cat, WUnit(w))

\* the external call of the unit raises and ends the worker's call
ParFetchRaises(w) ==
    /\ WMustFetch(w)
    /\ wrun' = [wrun EXCEPT ![w] = Failed(wrun[w], "AdapterError")]
    /\ UNCHANGED <<database, mgr, today, tables, run, fetchlog, prev, nops,
                   rlvars, ptvars, newvars>>

\* the external call returns: an invalid result is skipped, a valid one
\* goes to the insert (datafeed.py:333-337 and copies)
ParFetchReturns(w) ==
    /\ WMustFetch(w)
    /\ LET data == FetchResult(wrun[w].cat, WUnit(w))
       IN  wrun' = [wrun EXCEPT ![w] =
                        IF check_validity(data)
                        THEN [wrun[w] EXCEPT !.pc = "insert", !.data = data]
                        ELSE Advance(wrun[w])]
    /\ UNCHANGED <<database, mgr, today, tables, run, fetchlog, prev, nops,
                   rlvars, ptvars, newvars>>

\* datafeed.py:799-826: _insert_df_to_table is entered; it takes no lock,
\* the frame is converted and the connection opened
ParInsertBegin(w) ==
    /\ wrun[w].pc = "insert"
    /\ wrun' = [wrun EXCEPT ![w].pc = "inserting"]
    /\ UNCHANGED <<database, mgr, today, tables, run, fetchlog, prev, nops,
                   rlvars, ptvars, newvars>>

\* datafeed.py:811-828: the backend executes the insert
ParInsertEnd(w) ==
    /\ wrun[w].pc = "inserting"
    /\ LET res == insert_df_to_table(database, wrun[w].cat, wrun[w].data)
       IN  /\ tables' = [tables EXCEPT ![wrun[w].cat].rows = res.rows]
           /\ wrun' = [wrun EXCEPT ![w] =
                            IF res.err = "none" THEN Advance(wrun[w])
                            ELSE Failed(wrun[w], res.err)]
    /\ UNCHANGED <<database, mgr, today, run, fetchlog, prev, nops,
                   rlvars, ptvars, newvars>>

NextPar ==
    \/ \E w \in Workers : ParCheckTable(w)
    \/ \E w \in Workers : ParStart(w)
    \/ \E w \in Workers : ParSkip(w)
    \/ \E w \in Workers : ParUnbound(w)
    \/ \E w \in Workers : ParFetchRaises(w)
    \/ \E w \in Workers : ParFetchReturns(w)
    \/ \E w \in Workers : ParInsertBegin(w)
    \/ \E w \in Workers : ParInsertEnd(w)

SpecPar == InitPar /\ [][NextPar]_vars

----------------------------------------------------------------------------
(* Rate limiter claims: SpecRL *)

\* the admissions of op o (or of every op, o = "all") in [t, t + WINDOW)
AdmittedIn(o, t) ==
    {j \in 1..Len(admitted) :
        /\ o \in {"all", admitted[j].op}
        /\ t <= admitted[j].t /\ admitted[j].t < t + WINDOW}

\* C1: for one rate-limited operation, no rolling 60-second interval holds
\* more than max_calls admitted calls
C1_RollingWindow ==
    \A i \in 1..Len(admitted) :
        Cardinality(AdmittedIn(admitted[i].op, admitted[i].t)) <= max_calls_per_minute

AdmissionsOf(o) == SelectSeq(admitted, LAMBDA a : a.op = o)

\* C2: 2N calls of one operation take at least 60 s from the admission of
\* the first to the admission of the 2N-th
C2_TwoNCallsTakeAWindow ==
    \A o \in Decorated :
        Len(AdmissionsOf(o)) >= 2 * max_calls_per_minute =>
            AdmissionsOf(o)[2 * max_calls_per_minute].t - AdmissionsOf(o)[1].t >= WINDOW

\* C3: the budget is shared: all rate-limited operations together admit at
\* most max_calls calls within one 60-second window
C3_SharedBudget ==
    \A i \in 1..Len(admitted) :
        Cardinality(AdmittedIn("all", admitted[i].t)) <= max_calls_per_minute

\* C16: every external call of the six fetch operations has passed the
\* limiter's counter check first
C16_EveryCallGated == downstream <= Len(admitted)

\* the positions in the admission log of the calls of op o
PosOf(o) == {j \in 1..Len(admitted) : admitted[j].op = o}

\* the admissions of op o since its current window was opened
InWindow(o) ==
    LET opened == {j \in PosOf(o) : admitted[j].fresh}
    IN  {j \in PosOf(o) : \A k \in opened : k <= j}

\* a caller that found the counter at the limit: asleep, or at the lock
\* with calls >= max_calls
Blocked(t) ==
    \/ tpc[t] = "sleeping"
    \/ tpc[t] = "waiting" /\ calls[top[t]] >= max_calls_per_minute

\* C26: whenever the lock of a limiter is free its counter lies in
\* 0..max_calls and equals the number of calls admitted since the window
\* was opened; a caller that found the budget used up is admitted no
\* earlier than window_start + 60 s, as the first call of a fresh window
C26_FixedWindow ==
    /\ [](\A o \in Decorated :
            lock[o] = NoThread =>
                /\ 0 <= calls[o] /\ calls[o] <= max_calls_per_minute
                /\ calls[o] = Cardinality(InWindow(o)))
    /\ [][\A t \in Threads :
            (Blocked(t) /\ tpc'[t] = "admitted") =>
                /\ now >= start_time[top[t]] + WINDOW
                /\ calls'[top[t]] = 1
                /\ start_time'[top[t]] = now
                /\ admitted'[Len(admitted')].fresh]_vars

\* a caller that slept for the rest of the window has just been admitted
C26_Witness ==
    \E t \in Threads :
        /\ tpc[t] = "admitted" /\ wake_at[t] > 0
        /\ admitted # <<>>
        /\ admitted[Len(admitted)] = [op |-> top[t], t |-> wake_at[t], fresh |-> TRUE]
        /\ calls[top[t]] = 1

\* C27: no caller holds the limiter's lock while it runs the downstream
\* call, and every admission adds one to the counter it found (zero at the
\* start of a window)
C27_SerializedOnCheckOnly ==
    /\ [](\A t \in Threads : tpc[t] = "admitted" => lock[top[t]] # t)
    /\ [][Len(admitted') = Len(admitted) + 1 =>
            LET a == admitted'[Len(admitted')]
            IN  calls'[a.op] = (IF a.fresh THEN 0 ELSE calls[a.op]) + 1]_vars

\* two callers admitted by the same limiter are at the downstream call at
\* the same time, the lock free
C27_Witness ==
    \E t1, t2 \in Threads :
        /\ t1 # t2 /\ top[t1] = top[t2]
        /\ tpc[t1] = "admitted" /\ tpc[t2] = "admitted"
        /\ lock[top[t1]] = NoThread

\* C28: with a fair lock, every call of a rate-limited method is admitted
\* in the end and then runs the downstream function, once
C28_BlocksNeverRejects ==
    /\ \A t \in Threads :
        /\ (tpc[t] \in {"waiting", "sleeping"}) ~> (tpc[t] = "admitted")
        /\ (tpc[t] = "admitted") ~> (tpc[t] = "idle")
    /\ [][\A t \in Threads :
            (tpc[t] = "admitted" /\ tpc'[t] # "admitted") =>
                (tpc'[t] = "idle" /\ downstream' = downstream + 1)]_vars

\* more callers than the budget came to one limiter at once, a caller had
\* to sleep, and every call has run its downstream function
C28_Witness ==
    /\ \E o \in Decorated : Cardinality(PosOf(o)) = TotalCalls
    /\ \E t \in Threads : wake_at[t] > 0
    /\ downstream = TotalCalls
    /\ \A t \in Threads : tpc[t] = "idle"

----------------------------------------------------------------------------
(* Sync engine claims: SpecSync *)

Finished == run.pc \in {"done", "error"}

\* C4: in incremental mode the fetch of an entity with persisted records
\* starts the day after its latest persisted date and ends today
C4_ExtendStartsNextDay ==
    \A i \in 1..Len(fetchlog) :
        LET e == fetchlog[i] IN
        (/\ run.update /\ run.cat \in TickerCats /\ e.persisted # {}
         /\ run.table = table_name_of(run.cat)) =>
            /\ e.start = Str(YMDOf(MaxOf(e.persisted) + 1))
            /\ e.end = Str(YMDOf(today))

CallsFor(t) == {i \in 1..Len(fetchlog) : fetchlog[i].ticker = t}

\* C5: an incremental run that passed its precondition, with the backend
\* available, fetches every requested entity absent from the table exactly
\* once, as a backfill over [configured start, today]
C5_NewEntityBackfilled ==
    (Finished /\ run.update /\ run.cat \in TickerCats /\ ~run.lost
        /\ run.err \notin {"LookupError", "UnboundLocalError"}) =>
        \A t \in run.absent :
            /\ Cardinality(CallsFor(t)) = 1
            /\ \A i \in CallsFor(t) :
                /\ fetchlog[i].mode = "backfill"
                /\ fetchlog[i].start = mgr.start_date
                /\ fetchlog[i].end = Str(YMDOf(today))

NoDuplicateKey(bag) == \A r \in BagToSet(bag) : CopiesIn(r, bag) = 1

\* the operation that has just ended repeats the previous one: the same
\* full sync, by the same manager on the same day, the first one from an
\* empty table, the source answering every call, the backend available
RepeatedFullSync ==
    /\ Finished /\ ~run.update
    /\ prev.cat = run.cat /\ ~prev.update /\ ~prev.baseline
    /\ prev.mgr = mgr /\ prev.today = today
    /\ run.err # "AdapterError" /\ prev.err # "AdapterError"
    /\ ~run.lost /\ ~prev.lost

\* C6: on duckdb and mongodb, the same full sync run twice from an empty
\* table completes both times and leaves the rows of the first run, no two
\* with one key
C6_FullSyncIdempotent ==
    (RepeatedFullSync /\ HasBranch(database)) =>
        /\ prev.pc = "done" /\ run.pc = "done"
        /\ tables[run.cat].rows = prev.rows
        /\ NoDuplicateKey(tables[run.cat].rows)

\* C7: on duckdb and mongodb, with a source that answers every call, no
\* table ever holds two records with the same composite key
C7_UniqueCompositeKey ==
    (HasBranch(database) /\ run.err # "AdapterError" /\ prev.err # "AdapterError")
        => \A c \in Categories : NoDuplicateKey(tables[c].rows)

\* C8: incremental mode on an absent or empty table fails, on duckdb and
\* mongodb, with the precondition error before any fetch or insert
C8_PreconditionError ==
    (run.update /\ ~run.baseline /\ HasBranch(database)) =>
        /\ run.pc = "error" /\ run.err = "LookupError"
        /\ fetchlog = <<>>
        /\ tables[run.cat].rows = EmptyBag

\* C9: a fetch that raises never aborts the batch while units remain
C9_FailureSkipsUnit ==
    ~(run.pc = "error" /\ run.err = "AdapterError" /\ run.idx < Len(run.units))

\* C10: in an operation over several units, a fetch that returns an empty
\* or null result inserts nothing, raises nothing and moves on to the next
\* unit of the batch
EmptyOrNull(data) == data.none \/ data.rows = {}

C10_EmptyResultSkips ==
    [][(/\ run.pc = "unit" /\ run.cat # "basic"
        /\ Len(fetchlog') = Len(fetchlog) + 1
        /\ run'.err # "AdapterError"
        /\ EmptyOrNull(FetchResult(run.cat, Unit)))
       => (/\ tables' = tables
           /\ run'.err = "none"
           /\ run'.idx = run.idx + 1
           /\ run'.pc = IF run.idx < Len(run.units) THEN "unit" ELSE "done")]_vars

\* an empty result was skipped and a later unit of the batch has been
\* fetched and is being inserted
C10_Witness ==
    /\ run.pc = "insert" /\ run.cat # "basic"
    /\ Len(fetchlog) = run.idx
    /\ \E i \in 1..(run.idx - 1) : EmptyOrNull(FetchResult(run.cat, run.units[i]))

\* the dates stored for ticker t in the table of category cat
PersistedDates(cat, t) == {r.date : r \in {q \in Rows(cat) : q.ts_code = t}}

\* C14: in an incremental dividend sync no record with an ex-date at or
\* before the ticker's latest persisted ex-date reaches the insert
C14_NothingAtOrBeforeWatermark ==
    (run.pc = "insert" /\ run.cat = "dividend" /\ run.update /\ Unit.mode = "extend")
        => \A r \in run.data.rows :
                r.date > MaxOf(PersistedDates("dividend", Unit.ticker))

\* an incremental dividend fetch is about to insert records, the source
\* having returned a record at or before the watermark as well
C14_Witness ==
    /\ run.pc = "insert" /\ run.cat = "dividend" /\ run.update
    /\ Unit.mode = "extend" /\ run.data.rows # {}
    /\ \E d \in SourceDays("dividend", Unit.ticker) :
            d # NoDate /\ d <= MaxOf(PersistedDates("dividend", Unit.ticker))

\* C15: an incremental dividend sync that completes, with the backend
\* available, has stored every source record of an extended ticker with an
\* ex-date from the day after its watermark up to today
C15_EverythingAfterWatermark ==
    (/\ run.pc = "done" /\ run.cat = "dividend" /\ run.update /\ ~run.lost
     /\ run.table = table_name_of(run.cat)) =>
        \A i \in 1..Len(fetchlog) :
            LET e == fetchlog[i] IN
            e.mode = "extend" =>
                \A d \in SourceDays("dividend", e.ticker) :
                    (d # NoDate /\ MaxOf(e.persisted) + 1 <= d /\ d <= today)
                        => Row(e.ticker, d) \in Rows("dividend")

\* C17: once a storage call of a sync operation has failed for a lost
\* connection, the operation does not run to completion
C17_BackendFailureIsFatal == ~(run.lost /\ run.pc = "done")

\* C18: no sync operation ends in an internal error for lack of a backend
\* branch in a storage helper
C18_UniformBackendContract == run.err # "UnboundLocalError"

\* C20: the schema of a table is created by the step that starts an
\* operation, if and only if the table is absent then, and by no other
\* step; on an existing table the start leaves every table as it is
C20_SchemaEnsureIdempotent ==
    [][/\ (nops' = nops + 1) =>
            /\ run'.created = ~tables[run'.cat].exists
            /\ tables'[run'.cat].exists
            /\ tables[run'.cat].exists => tables' = tables
            /\ \A c \in Categories \ {run'.cat} : tables'[c] = tables[c]
       /\ (nops' = nops) =>
            \A c \in Categories : tables'[c].exists = tables[c].exists]_vars

\* an operation has started on a table that held records and is past its
\* first unit
C20_Witness ==
    /\ run.pc \in {"unit", "insert", "done"} /\ run.idx > 1
    /\ ~run.created /\ run.baseline
    /\ tables[run.cat].rows # EmptyBag

\* C21: a unit is fetched and inserted only once the table exists and the
\* unit's branch is decided; an insert is pending only for the unit whose
\* fetch was the last call to return, and the rows of a table change in no
\* step but the insert of the running operation
C21_UnitLifecycle ==
    /\ [](/\ run.pc \in {"unit", "insert"} =>
                /\ tables[run.cat].exists
                /\ Unit.mode \in {"full", "backfill", "extend"}
          /\ run.pc = "insert" =>
                /\ fetchlog # <<>>
                /\ fetchlog[Len(fetchlog)].ticker = Unit.ticker
                /\ fetchlog[Len(fetchlog)].day = Unit.day
                /\ fetchlog[Len(fetchlog)].mode = Unit.mode)
    /\ [][\A c \in Categories :
            tables'[c].rows # tables[c].rows =>
                /\ run.pc = "insert" /\ run.cat = c
                /\ run'.pc # "insert"
                /\ fetchlog' = fetchlog]_vars

\* the second unit of an incremental run has been fetched and is about to
\* be inserted
C21_Witness ==
    /\ run.pc = "insert" /\ run.idx = 2
    /\ Unit.mode \in {"backfill", "extend"}
    /\ Len(fetchlog) = 2

\* C22: no insert is attempted for an empty or null fetch result, in any
\* category
C22_EmptyResultNeverInserted ==
    ~(run.pc = "insert" /\ EmptyOrNull(run.data))

\* the answer of _check_data_exists counts for the entries of a full sync
\* on a backend the lookup has a branch for, the backend available
LookupDecides ==
    /\ run.cat # "none" /\ run.cat # "basic" /\ ~run.update
    /\ HasBranch(database) /\ ~run.lost

\* C23: a full sync never fetches a unit whose ticker or trade date the
\* table already holds
C23_HeldUnitNeverRefetched ==
    LookupDecides => \A i \in 1..Len(fetchlog) : ~fetchlog[i].held

\* the end of the range when the caller supplied none
RequestedEnd ==
    IF mgr.end_date = Str(DefaultEnd) THEN strftime(Timestamp(today))
    ELSE mgr.end_date

\* C24: every fetch of a full sync by ticker covers [requested start,
\* requested end], the end being today when none was requested
C24_FullRangeDefaultsToToday ==
    (run.cat \in TickerCats /\ ~run.update) =>
        \A i \in 1..Len(fetchlog) :
            /\ fetchlog[i].start = mgr.start_date
            /\ fetchlog[i].end = RequestedEnd

\* the global maximum of the dates the suspension table held when the
\* operation started, and the trade days after it up to today
SuspendWatermark == MaxOf({r.date : r \in BagToSet(prev.rows)})
DueDays == {d \in Days : is_tradeday(d) /\ SuspendWatermark < d /\ d <= today}

\* C25: an incremental suspension sync on a table that holds records, the
\* backend available, fetches each trade day after the global maximum date
\* up to today once, in ascending order, and no other day
C25_SuspendGlobalWatermark ==
    (/\ Finished /\ run.cat = "suspend" /\ run.update
     /\ run.baseline /\ HasBranch(database) /\ ~run.lost) =>
        /\ Len(fetchlog) = Cardinality(DueDays)
        /\ \A i \in 1..Len(fetchlog) : fetchlog[i].day \in DueDays
        /\ \A i, j \in 1..Len(fetchlog) : i < j => fetchlog[i].day < fetchlog[j].day

\* C31: an incremental dividend run on a table that holds records finds a
\* watermark for every ticker of the table, whatever the table is called
C31_DividendWatermarkAnyName ==
    (/\ run.cat = "dividend" /\ run.update
     /\ run.baseline /\ HasBranch(database)) =>
        /\ run.err # "BinderException"
        /\ \A i \in 1..Len(run.units) :
            run.units[i].mode = "extend" => run.units[i].cutoff.kind # "None"

\* the entities of the table when the operation started, and the requested
\* universe
InTableAtStart == {r.ts_code : r \in BagToSet(prev.rows)}
Requested == {mgr.ticker_list[i] : i \in 1..Len(mgr.ticker_list)}

\* C32: an incremental run by ticker that passed its precondition, the
\* backend available, makes one fetch call for each entity of the table or
\* of the requested universe and no other: an extend for an entity of the
\* table, a backfill for the others
C32_OneFetchPerEntity ==
    (/\ Finished /\ run.update /\ run.cat \in TickerCats /\ ~run.lost
     /\ run.baseline /\ run.table = table_name_of(run.cat)
     /\ run.err \notin {"LookupError", "UnboundLocalError"}) =>
        /\ \A t \in InTableAtStart \cup Requested :
            /\ Cardinality(CallsFor(t)) = 1
            /\ \A i \in CallsFor(t) :
                fetchlog[i].mode =
                    IF t \in InTableAtStart THEN "extend" ELSE "backfill"
        /\ Len(fetchlog) = Cardinality(InTableAtStart \cup Requested)

\* C33: an incremental sync that fails its precondition has not created the
\* table it was called on
C33_FailedPreconditionCreatesNothing ==
    (/\ run.update /\ run.pc = "error"
     /\ run.err \in {"LookupError", "KeyError", "NotImplementedError"}) =>
        ~run.created

----------------------------------------------------------------------------
(* Dispatcher claims: SpecPT, SpecPTLive *)

TimesInvoked(i) == Cardinality({j \in 1..Len(invocations) : invocations[j].task = i})

\* C11: when parallel_task returns, every task has been invoked exactly once
\* and has finished, len(tasks) threads were started, every thread has
\* ended on a stop item and none is left in the queue
C11_AllDoneOnReturn ==
    ppc = "returned" =>
        /\ \A i \in 1..Len(tasks) : TimesInvoked(i) = 1 /\ i \in finished
        /\ Len(threads) = Len(tasks)
        /\ \A w \in 1..Len(threads) : threads[w] = "exited"
        /\ task_queue = <<>>

\* parallel_task has returned from a batch of several tasks
C11_Witness == ppc = "returned" /\ Len(tasks) >= 2 /\ Cardinality(finished) >= 2

\* C12: once a task has raised in a worker, parallel_task eventually returns
C12_RaiseStillTerminates ==
    (\E w \in 1..Len(threads) : threads[w] = "died") ~> (ppc = "returned")

\* the operation of the category a table name belongs to
OwnOperation(name) ==
    CASE name = "stock_daily_real" -> "fetch_volumn_price_data"
      [] name = "stock_daily_limit" -> "fetch_stock_limit_data"
      [] name = "stock_daily_fundamental" -> "fetch_stock_fundamental_data"
      [] name = "stock_dividend" -> "fetch_stock_dividend_data"
      [] name = "stock_suspend_status" -> "fetch_stock_suspend_data"

\* C13: every task is invoked through the fetch operation of the category
\* of its table name
C13_RoutedToOwnCategory ==
    \A j \in 1..Len(invocations) :
        invocations[j].func = OwnOperation(tasks[invocations[j].task][1])

\* C36: once parallel_task has failed while routing a task, every worker
\* thread it had started comes to an end
C36_NoWorkerLeftBlocked ==
    (ppc = "raised") ~>
        (\A w \in Workers : w <= Len(threads) => threads[w] \notin {"get", "run"})

----------------------------------------------------------------------------
(* Construction claims: SpecNew *)

\* C19: the constructor returns an object only for a backend among chdb,
\* duckdb, mongodb and a supported source, whatever the ticker list
C19_UnsupportedFailsFast ==
    made.status = "object" =>
        /\ made.self.database \in Databases
        /\ made.self.source = "tushare"

----------------------------------------------------------------------------
(* Concurrent sync claims: SpecPar *)

\* the backends that take one writer at a time
SingleWriter == {"chdb", "duckdb"}

\* C29: on a backend without concurrent-writer support no two workers are
\* inside an insert into the same table at the same time
C29_InsertsSerializedPerTable ==
    database \in SingleWriter =>
        \A w1, w2 \in Workers :
            (/\ w1 # w2
             /\ wrun[w1].pc = "inserting" /\ wrun[w2].pc = "inserting")
                => wrun[w1].cat # wrun[w2].cat

\* every worker runs an incremental sync and read the table before any
\* other worker had inserted into it
ConcurrentIncremental ==
    \A w \in Workers :
        /\ wrun[w].update
        /\ wrun[w].pc \notin {"queued", "checked"} => wrun[w].seen = SeedRows

\* C30: incremental runs of one category that all read their watermarks
\* before any of them inserts leave no two rows with the same composite key
C30_NoDuplicateFromConcurrentRuns ==
    ConcurrentIncremental =>
        \A c \in ParCats : NoDuplicateKey(tables[c].rows)

\* worker w has executed the creation of the table it found absent
ExecutedCreate(w) ==
    wrun[w].saw_absent /\ wrun[w].pc \notin {"queued", "checked"}

\* C35: of the workers that touch the same absent table, at most one
\* executes the creation of the schema
C35_SchemaCreatedByOneWorker ==
    \A w1, w2 \in Workers :
        (w1 # w2 /\ wrun[w1].cat = wrun[w2].cat) =>
            ~(ExecutedCreate(w1) /\ ExecutedCreate(w2))


----------------------------------------------------------------------------
(* Connection handle claims: SpecConn *)

\* the parameters the claim names, as an object holds them
Params(o) ==
    [host |-> o.host, port |-> o.port,
     data_path |-> o.data_path, factor_path |-> o.factor_path]

\* C34: every handle returned by connection_factory still reads the host,
\* port, data path and factor path of the backend it was created for,
\* whatever connection_factory calls were made after it
C34_HandleKeepsItsBackend ==
    \A i \in 1..Len(handles) :
        Params(heap[handles[i].ref]) = Params(builder_of(handles[i].db_type))

====
